---- MODULE Spec2Model ----
(***************************************************************************)
(* A model of lib/iris/__init__.py (Iris 1.6.0-dev):                       *)
(*   - the thread-local run-time option store Future / FUTURE and its      *)
(*     context() manager (specification FutureSpec);                       *)
(*   - the load pipeline _generate_cubes / _load_collection and the four   *)
(*     entry points load, load_cube, load_cubes, load_raw (LoadSpec).      *)
(***************************************************************************)
EXTENDS Integers, Sequences, FiniteSets, TLC

VARIABLES
    dict,       \* Future: thread -> that thread's __dict__ (option name -> value);
                \* the domain is the set of threads that have touched FUTURE
    stack,      \* Future: thread -> the live context() generators of the thread,
                \* innermost first, each holding its local current_state
    last,       \* Future: the operation performed by the latest step
    pc,         \* load: "ready" before the call, "done" after it
    fn,         \* load: the entry point that was called
    uris,       \* load: the uris argument
    constraints,\* load: the constraints / constraint argument
    callback,   \* load: the callback argument
    merge_alg,  \* load: which merge behaviour iris.cube provides
    outcome     \* load: what the call returned or raised, and the I/O it did

future_vars == <<dict, stack, last>>
load_vars == <<pc, fn, uris, constraints, callback, merge_alg, outcome>>
vars == <<dict, stack, last, pc, fn, uris, constraints, callback, merge_alg, outcome>>

(***************************************************************************)
(* Bounds                                                                  *)
(***************************************************************************)
MaxDepth == 2       \* deepest nesting of with-blocks per thread
MaxKwargs == 2      \* most keyword arguments passed to context()
MaxUris == 2        \* longest list of uris
MaxConstraints == 2 \* longest list of constraints

Threads == {"t1", "t2"}
MainThread == "t1"  \* the thread that imports iris and so runs FUTURE = Future()

(***************************************************************************)
(* class Future(threading.local)                                           *)
(***************************************************************************)
OptionNames == {"cell_time_objects"}
ArgNames == {"cell_time_objects", "bogus"}
Values == BOOLEAN

\* the keyword dictionaries, each in every order iteritems() may produce
KwargsSeqs ==
    {kw \in UNION {[1..n -> [name : ArgNames, value : Values]] : n \in 0..MaxKwargs} :
        \A i, j \in 1..Len(kw) : i # j => kw[i].name # kw[j].name}

\* Future.__init__(self, cell_time_objects=False): the fresh __dict__
Future__init__(cell_time_objects) == [n \in OptionNames |-> cell_time_objects]

\* FUTURE = Future(): the arguments threading.local replays in every thread
FUTURE == Future__init__(FALSE)

\* threading.local: the calling thread's __dict__, built by __init__ on the
\* thread's first access
ThreadDict(d, t) == IF t \in DOMAIN d THEN d[t] ELSE FUTURE

\* threading.local: a thread's __dict__ is stored for that thread only
StoreDict_shared(d, t, m) == [u \in DOMAIN d \cup {t} |-> m]

StoreDict(d, t, m) == [u \in DOMAIN d \cup {t} |-> IF u = t THEN m ELSE d[u]]

\* Future.__setattr__ without the membership test
Future_setattr_lax(m, name, value) ==
    [ok |-> TRUE,
     dict |-> [n \in DOMAIN m \cup {name} |-> IF n = name THEN value ELSE m[n]]]

\* Future.__setattr__(self, name, value)
Future_setattr(m, name, value) ==
    IF name \notin DOMAIN m
    THEN [ok |-> FALSE, dict |-> m]
    ELSE [ok |-> TRUE, dict |-> [m EXCEPT ![name] = value]]

\* Future.context, "Update the state": setattr for each keyword in iteration
\* order; the first AttributeError ends the loop
RECURSIVE context_update(_, _)
context_update(m, kwargs) ==
    IF kwargs = <<>> THEN [ok |-> TRUE, dict |-> m]
    ELSE LET r == Future_setattr(m, kwargs[1].name, kwargs[1].value)
         IN IF r.ok THEN context_update(r.dict, Tail(kwargs)) ELSE r

\* Future.context, "Return the state" left out
context_restore_skip(m, current_state) == m

\* Future.context, "Return the state": __dict__.clear(); __dict__.update(current_state)
context_restore(m, current_state) == current_state

\* what the latest step did: thread, operation, its arguments, the thread's
\* mapping before the step (pre), the mapping at the matching entry for an
\* exit (entry), whether it raised, and the value a read returned
Op(t, op, kwargs, pre, entry, ok, read) ==
    [thread |-> t, op |-> op, kwargs |-> kwargs, pre |-> pre, entry |-> entry,
     ok |-> ok, read |-> read]

\* FUTURE.cell_time_objects read by thread t (Future.__repr__ reads it too)
Read(t) ==
    LET m == ThreadDict(dict, t) IN
    /\ dict' = StoreDict(dict, t, m)
    /\ last' = Op(t, "read", <<>>, m, m, TRUE, m["cell_time_objects"])
    /\ UNCHANGED stack

\* FUTURE.<name> = value by thread t
SetAttr(t) ==
    \E name \in ArgNames, value \in Values :
        LET m == ThreadDict(dict, t)
            r == Future_setattr(m, name, value)
        IN /\ dict' = StoreDict(dict, t, r.dict)
           /\ last' = Op(t, "set", <<[name |-> name, value |-> value]>>, m, m, r.ok, FALSE)
           /\ UNCHANGED stack

\* `with FUTURE.context(**kwargs):` entered by thread t: the generator runs
\* up to its yield, or dies in setattr
ContextEnter(t) ==
    /\ Len(stack[t]) < MaxDepth
    /\ \E kwargs \in KwargsSeqs :
        LET m == ThreadDict(dict, t)
            current_state == m
            r == context_update(m, kwargs)
        IN /\ dict' = StoreDict(dict, t, r.dict)
           /\ stack' = IF r.ok
                       THEN [stack EXCEPT ![t] = <<[current_state |-> current_state]>> \o @]
                       ELSE stack
           /\ last' = Op(t, "enter", kwargs, m, m, r.ok, FALSE)

\* the with-block of thread t's innermost context ends normally: the
\* generator resumes after its yield
ContextExit(t) ==
    /\ stack[t] # <<>>
    /\ LET m == ThreadDict(dict, t)
           current_state == Head(stack[t]).current_state
       IN /\ dict' = StoreDict(dict, t, context_restore(m, current_state))
          /\ stack' = [stack EXCEPT ![t] = Tail(@)]
          /\ last' = Op(t, "exit", <<>>, m, current_state, TRUE, FALSE)

\* the with-block of thread t's innermost context raises: contextlib throws
\* the exception into the generator at its yield, which has no try/finally,
\* so the generator dies there and the exception propagates
ContextRaise(t) ==
    /\ stack[t] # <<>>
    /\ LET m == ThreadDict(dict, t)
           current_state == Head(stack[t]).current_state
       IN /\ dict' = StoreDict(dict, t, m)
          /\ stack' = [stack EXCEPT ![t] = Tail(@)]
          /\ last' = Op(t, "raise", <<>>, m, current_state, FALSE, FALSE)

(***************************************************************************)
(* Values of the load pipeline                                             *)
(***************************************************************************)
\* A string is the sequence of its tokens: <<"a">> is 'a' and
\* <<"http", ":", "a">> is 'http:a'.
Locations ==
    {<<"a">>, <<"b">>, <<"e">>, <<"file", ":", "a">>, <<"http", ":", "a">>,
     <<"https", ":", "b">>, <<"ftp", ":", "a">>}

\* the order of Python's str comparison on the tokens in use
StrRank ==
    ":" :> 0 @@ "a" :> 1 @@ "b" :> 2 @@ "e" :> 3 @@ "file" :> 4 @@ "ftp" :> 5
    @@ "http" :> 6 @@ "https" :> 7

\* a record (cube) as the source yields it
Cube(id, name, grp) == [ids |-> {id}, name |-> name, grp |-> grp]

\* what the sources hold; file 'e' is truncated
Contents(scheme, part) ==
    IF scheme = "file" /\ part = "a" THEN <<Cube(1, "T", 1), Cube(2, "T", 1)>>
    ELSE IF scheme = "file" /\ part = "b" THEN <<Cube(3, "T", 2), Cube(4, "P", 1)>>
    ELSE IF scheme = "http" /\ part = "a" THEN <<Cube(5, "P", 1)>>
    ELSE IF scheme = "https" /\ part = "b" THEN <<Cube(6, "T", 3)>>
    ELSE <<>>

Truncated(scheme, part) == scheme = "file" /\ part = "e"

CatchAll == [kind |-> "all", name |-> ""]
ConstraintSet == {CatchAll, [kind |-> "name", name |-> "T"], [kind |-> "name", name |-> "P"]}

\* iris.Constraint: does the cube satisfy the constraint
Matches(c, cube) == c.kind = "all" \/ cube.name = c.name

UriArgs ==
    [type : {"str"}, val : Locations]
    \cup [type : {"list"}, val : UNION {[1..n -> Locations] : n \in 0..MaxUris}]

ConstraintArgs ==
    {[type |-> "None", val |-> <<>>]}
    \cup {[type |-> "one", val |-> <<c>>] : c \in ConstraintSet}
    \cup [type : {"list"}, val : UNION {[1..n -> ConstraintSet] : n \in 0..MaxConstraints}]

\* no callback, or one that rejects cube 2 and leaves the others alone
CallbackArgs == {[present |-> FALSE, rejects |-> {}], [present |-> TRUE, rejects |-> {2}]}

MergeAlgs == {"none", "by_group"}

RECURSIVE Flatten(_)
Flatten(ss) == IF ss = <<>> THEN <<>> ELSE Head(ss) \o Flatten(Tail(ss))

\* F of the value of v, with v evaluated once however often F uses it
With(v, F(_)) == CHOOSE r \in {F(x) : x \in {v}} : TRUE

(***************************************************************************)
(* Collaborators: iris.io, iris._constraints, iris.cube                    *)
(***************************************************************************)
\* iris.io.decode_uri(uri): (scheme, part), scheme 'file' when none is given
decode_uri(uri) ==
    IF Len(uri) >= 3 /\ uri[2] = ":"
    THEN <<uri[1], uri[3]>>
    ELSE <<"file", uri[1]>>

\* one source read by a loader: the callback sees every raw cube and drops
\* the ones it rejects; a truncated source ends in EOFError
ReadSource(scheme, part, cb) ==
    LET raw == Contents(scheme, part) IN
    [cubes |-> SelectSeq(raw, LAMBDA c : ~(cb.present /\ c.ids \subseteq cb.rejects)),
     callbacks |-> IF cb.present THEN raw ELSE <<>>,
     pulled |-> Len(raw),
     err |-> IF Truncated(scheme, part) THEN "EOFError" ELSE ""]

\* a loader over its sources in order, stopping at the first failure
RECURSIVE ReadSources(_, _, _)
ReadSources(sources, cb, acc) ==
    IF sources = <<>> \/ acc.err # "" THEN acc
    ELSE With(ReadSource(sources[1][1], sources[1][2], cb), LAMBDA r :
         With([cubes |-> acc.cubes \o r.cubes,
               callbacks |-> acc.callbacks \o r.callbacks,
               pulled |-> acc.pulled + r.pulled,
               err |-> r.err],
              LAMBDA next : ReadSources(Tail(sources), cb, next)))

NoCubes == [cubes |-> <<>>, callbacks |-> <<>>, pulled |-> 0, err |-> ""]

\* iris.io.load_files(part_names, callback)
load_files(part_names, cb) ==
    ReadSources([i \in 1..Len(part_names) |-> <<"file", part_names[i][1]>>], cb, NoCubes)

\* iris.io.load_http(urls, callback)
load_http(urls, cb) ==
    ReadSources([i \in 1..Len(urls) |-> decode_uri(urls[i])], cb, NoCubes)

\* iris._constraints.list_of_constraints(constraints)
list_of_constraints(arg) == IF arg.type = "None" THEN <<CatchAll>> ELSE arg.val

\* iris.cube._CubeFilterCollection.from_cubes: every cube, in generation
\* order, is appended to each pair whose constraint it satisfies
RECURSIVE from_cubes_add(_, _)
from_cubes_add(pairs, cubes) ==
    IF cubes = <<>> THEN pairs
    ELSE With([i \in 1..Len(pairs) |->
                IF Matches(pairs[i].constraint, Head(cubes))
                THEN [pairs[i] EXCEPT !.cubes = Append(@, Head(cubes))]
                ELSE pairs[i]],
              LAMBDA next : from_cubes_add(next, Tail(cubes)))

from_cubes(cubes, arg) ==
    With(list_of_constraints(arg), LAMBDA cs :
    With([i \in 1..Len(cs) |-> [constraint |-> cs[i], cubes |-> <<>>]],
         LAMBDA pairs : from_cubes_add(pairs, cubes)))

\* the merge of iris.cube: "none" combines nothing; "by_group" combines the
\* cubes of one name and group into the first of them
RECURSIVE merge_by_group(_, _)
merge_by_group(done, cubes) ==
    IF cubes = <<>> THEN done
    ELSE LET c == Head(cubes)
             hit == {i \in 1..Len(done) : done[i].name = c.name /\ done[i].grp = c.grp}
         IN With(IF hit = {} THEN Append(done, c)
                 ELSE [i \in 1..Len(done) |->
                         IF i \in hit THEN [done[i] EXCEPT !.ids = @ \cup c.ids]
                         ELSE done[i]],
                 LAMBDA next : merge_by_group(next, Tail(cubes)))

merge(cubes, alg) ==
    IF alg = "by_group" THEN With(cubes, LAMBDA cs : merge_by_group(<<>>, cs)) ELSE cubes

\* _CubeFilterCollection.merged()
merged(pairs, alg) ==
    With(pairs, LAMBDA ps : [i \in 1..Len(ps) |-> [ps[i] EXCEPT !.cubes = merge(@, alg)]])

\* _CubeFilterCollection.cubes()
cubes_of(pairs) ==
    With(pairs, LAMBDA ps : Flatten([i \in 1..Len(ps) |-> ps[i].cubes]))

(***************************************************************************)
(* _generate_cubes, _load_collection                                       *)
(***************************************************************************)
\* _generate_cubes: `if isinstance(uris, basestring): uris = [uris]`
uri_list(uris_arg) == IF uris_arg.type = "str" THEN <<uris_arg.val>> ELSE uris_arg.val

\* the order of Python's tuple comparison on (scheme, part)
TupleLess(x, y) ==
    \/ StrRank[x[1]] < StrRank[y[1]]
    \/ x[1] = y[1] /\ StrRank[x[2]] < StrRank[y[2]]

RECURSIVE Insert(_, _)
Insert(x, ts) ==
    IF ts = <<>> THEN <<x>>
    ELSE IF TupleLess(x, ts[1]) THEN <<x>> \o ts
    ELSE <<ts[1]>> \o Insert(x, Tail(ts))

RECURSIVE sorted_rec(_, _)
sorted_rec(ts, done) ==
    IF ts = <<>> THEN done
    ELSE With(Insert(Head(ts), done), LAMBDA next : sorted_rec(Tail(ts), next))

\* the decode results left in the order of the uris
sorted_skip(ts) == ts

\* sorted(...): the decode results in ascending order
sorted(ts) == With(ts, LAMBDA us : sorted_rec(us, <<>>))

\* _generate_cubes: uri_tuples = sorted(iris.io.decode_uri(uri) for uri in uris)
decoded_uris(uris_arg) ==
    LET us == uri_list(uris_arg) IN [i \in 1..Len(us) |-> decode_uri(us[i])]

\* itertools.groupby(uri_tuples, key=lambda x: x[0]): the maximal runs of
\* consecutive tuples of one scheme
RECURSIVE groupby(_, _)
groupby(ts, done) ==
    IF ts = <<>> THEN done
    ELSE With(IF done # <<>> /\ done[Len(done)].scheme = ts[1][1]
              THEN [done EXCEPT ![Len(done)].groups = Append(@, ts[1])]
              ELSE Append(done, [scheme |-> ts[1][1], groups |-> <<ts[1]>>]),
              LAMBDA next : groupby(Tail(ts), next))

\* the I/O of a call: the decode results, the groups given to loaders, the
\* number of raw cubes pulled from the sources, the cubes the callback saw
NoIO == [decoded |-> <<>>, handed |-> <<>>, pulled |-> 0, callbacks |-> <<>>]

\* the body of the for loop of _generate_cubes, group by group, up to the
\* first exception
RECURSIVE generate_groups(_, _, _)
generate_groups(todo, cb, acc) ==
    IF todo = <<>> \/ acc.err # "" THEN acc
    ELSE
        LET scheme == todo[1].scheme
            groups == todo[1].groups
        IN
        IF scheme = "file" THEN
            LET part_names == [i \in 1..Len(groups) |-> <<groups[i][2]>>] IN
            With(load_files(part_names, cb), LAMBDA r :
            With([cubes |-> acc.cubes \o r.cubes,
                  err |-> r.err,
                  scheme |-> "",
                  io |-> [decoded |-> acc.io.decoded,
                          handed |-> Append(acc.io.handed,
                                        [scheme |-> scheme, loader |-> "load_files",
                                         groups |-> groups, args |-> part_names]),
                          pulled |-> acc.io.pulled + r.pulled,
                          callbacks |-> acc.io.callbacks \o r.callbacks]],
                 LAMBDA next : generate_groups(Tail(todo), cb, next)))
        ELSE IF scheme \in {"http", "https"} THEN
            LET urls == [i \in 1..Len(groups) |-> <<groups[i][1], ":", groups[i][2]>>] IN
            With(load_http(urls, cb), LAMBDA r :
            With([cubes |-> acc.cubes \o r.cubes,
                  err |-> r.err,
                  scheme |-> "",
                  io |-> [decoded |-> acc.io.decoded,
                          handed |-> Append(acc.io.handed,
                                        [scheme |-> scheme, loader |-> "load_http",
                                         groups |-> groups, args |-> urls]),
                          pulled |-> acc.io.pulled + r.pulled,
                          callbacks |-> acc.io.callbacks \o r.callbacks]],
                 LAMBDA next : generate_groups(Tail(todo), cb, next)))
        ELSE [acc EXCEPT !.err = "ValueError", !.scheme = scheme]

\* _generate_cubes(uris, callback), consumed to its end or to its exception
generate_cubes(uris_arg, cb) ==
    With(decoded_uris(uris_arg), LAMBDA decoded :
    With(groupby(sorted(decoded), <<>>), LAMBDA todo :
         generate_groups(todo, cb,
                         [cubes |-> <<>>, err |-> "", scheme |-> "",
                          io |-> [NoIO EXCEPT !.decoded = decoded]])))

\* _load_collection(uris, constraints, callback)
load_collection(uris_arg, constraints_arg, cb) ==
    With(generate_cubes(uris_arg, cb), LAMBDA g :
        IF g.err = "EOFError"
        THEN [err |-> "TranslationError", scheme |-> "", pairs |-> <<>>, io |-> g.io]
        ELSE IF g.err # ""
        THEN [err |-> g.err, scheme |-> g.scheme, pairs |-> <<>>, io |-> g.io]
        ELSE [err |-> "", scheme |-> "", pairs |-> from_cubes(g.cubes, constraints_arg),
              io |-> g.io])

(***************************************************************************)
(* load, load_cube, load_cubes, load_raw                                   *)
(***************************************************************************)
\* what a call returns or raises: status is "ok" or the exception; message
\* and scheme, found and bits are the parts of the exception's text; single
\* tells a returned cube from a returned list
Outcome(status, message, single, cubes, found, bits, io) ==
    [status |-> status, message |-> message, single |-> single, cubes |-> cubes,
     found |-> found, bits |-> bits, io |-> io]

\* an exception of _load_collection passing through the entry point
Propagated(coll) ==
    Outcome(coll.err,
            IF coll.err = "ValueError" THEN "Iris cannot handle the URI scheme: " \o coll.scheme
            ELSE "The file appears empty or incomplete",
            FALSE, <<>>, 0, <<>>, coll.io)

\* load(uris, constraints, callback)
load(uris_arg, constraints_arg, cb, alg) ==
    With(load_collection(uris_arg, constraints_arg, cb), LAMBDA coll :
        IF coll.err # "" THEN Propagated(coll)
        ELSE Outcome("ok", "", FALSE, cubes_of(merged(coll.pairs, alg)), 0, <<>>, coll.io))

ArityError ==
    Outcome("ValueError", "only a single constraint is allowed", FALSE, <<>>, 0, <<>>, NoIO)

\* load_cube: `if len(cubes) != 1: raise ...; return cubes[0]`
load_cube_result(cubes, io) ==
    IF Len(cubes) # 1
    THEN Outcome("ConstraintMismatchError", "Expected exactly one cube, found {}.",
                 FALSE, <<>>, Len(cubes), <<>>, io)
    ELSE Outcome("ok", "", TRUE, <<cubes[1]>>, 0, <<>>, io)

\* load_cube with the number of constraints tested after the load
load_cube_late(uris_arg, constraint_arg, cb, alg) ==
    With(list_of_constraints(constraint_arg), LAMBDA cs :
    With(load_collection(uris_arg, [type |-> "list", val |-> cs], cb), LAMBDA coll :
        IF coll.err # "" THEN Propagated(coll)
        ELSE IF Len(cs) # 1 THEN [ArityError EXCEPT !.io = coll.io]
        ELSE With(cubes_of(merged(coll.pairs, alg)),
                  LAMBDA cubes : load_cube_result(cubes, coll.io))))

\* load_cube that only refuses an empty result
load_cube_first(uris_arg, constraint_arg, cb, alg) ==
    With(list_of_constraints(constraint_arg), LAMBDA cs :
        IF Len(cs) # 1 THEN ArityError
        ELSE With(load_collection(uris_arg, [type |-> "list", val |-> cs], cb),
                  LAMBDA coll :
            IF coll.err # "" THEN Propagated(coll)
            ELSE With(cubes_of(merged(coll.pairs, alg)), LAMBDA cubes :
                IF Len(cubes) = 0 THEN load_cube_result(cubes, coll.io)
                ELSE Outcome("ok", "", TRUE, <<cubes[1]>>, 0, <<>>, coll.io))))

\* load_cube(uris, constraint, callback)
load_cube(uris_arg, constraint_arg, cb, alg) ==
    With(list_of_constraints(constraint_arg), LAMBDA cs :
        IF Len(cs) # 1 THEN ArityError
        ELSE With(load_collection(uris_arg, [type |-> "list", val |-> cs], cb),
                  LAMBDA coll :
            IF coll.err # "" THEN Propagated(coll)
            ELSE With(cubes_of(merged(coll.pairs, alg)),
                      LAMBDA cubes : load_cube_result(cubes, coll.io))))

\* the '   {} -> {} cubes' line of a pair
Bit(pair) == [constraint |-> pair.constraint, count |-> Len(pair.cubes)]

\* load_cubes naming only the first pair that is not a single cube
load_cubes_first(uris_arg, constraints_arg, cb, alg) ==
    With(load_collection(uris_arg, constraints_arg, cb), LAMBDA coll :
        IF coll.err # "" THEN Propagated(coll)
        ELSE With(merged(coll.pairs, alg), LAMBDA collection :
             With(SelectSeq(collection, LAMBDA pair : Len(pair.cubes) # 1),
                  LAMBDA bad_pairs :
                IF bad_pairs # <<>>
                THEN Outcome("ConstraintMismatchError", "   {} -> {} cubes", FALSE, <<>>,
                             0, <<Bit(bad_pairs[1])>>, coll.io)
                ELSE Outcome("ok", "", FALSE, cubes_of(collection), 0, <<>>, coll.io))))

\* load_cubes(uris, constraints, callback)
load_cubes(uris_arg, constraints_arg, cb, alg) ==
    With(load_collection(uris_arg, constraints_arg, cb), LAMBDA coll :
        IF coll.err # "" THEN Propagated(coll)
        ELSE With(merged(coll.pairs, alg), LAMBDA collection :
             With(SelectSeq(collection, LAMBDA pair : Len(pair.cubes) # 1),
                  LAMBDA bad_pairs :
                IF bad_pairs # <<>>
                THEN Outcome("ConstraintMismatchError", "   {} -> {} cubes", FALSE, <<>>,
                             0, [i \in 1..Len(bad_pairs) |-> Bit(bad_pairs[i])], coll.io)
                ELSE Outcome("ok", "", FALSE, cubes_of(collection), 0, <<>>, coll.io))))

\* load_raw that merges, as load does
load_raw_merged(uris_arg, constraints_arg, cb, alg) ==
    load(uris_arg, constraints_arg, cb, alg)

\* load_raw(uris, constraints, callback)
load_raw(uris_arg, constraints_arg, cb, alg) ==
    With(load_collection(uris_arg, constraints_arg, cb), LAMBDA coll :
        IF coll.err # "" THEN Propagated(coll)
        ELSE Outcome("ok", "", FALSE, cubes_of(coll.pairs), 0, <<>>, coll.io))

NoOutcome == Outcome("none", "", FALSE, <<>>, 0, <<>>, NoIO)

FutureNext ==
    \/ \E t \in Threads : Read(t) /\ UNCHANGED load_vars
    \/ \E t \in Threads : SetAttr(t) /\ UNCHANGED load_vars
    \/ \E t \in Threads : ContextEnter(t) /\ UNCHANGED load_vars
    \/ \E t \in Threads : ContextExit(t) /\ UNCHANGED load_vars
    \/ \E t \in Threads : ContextRaise(t) /\ UNCHANGED load_vars

FutureSpecInit ==
    /\ dict = [t \in {MainThread} |-> FUTURE]
    /\ stack = [t \in Threads |-> <<>>]
    /\ last = Op(MainThread, "import", <<>>, FUTURE, FUTURE, TRUE, FALSE)
    /\ pc = "idle"
    /\ fn = "none"
    /\ uris = [type |-> "list", val |-> <<>>]
    /\ constraints = [type |-> "None", val |-> <<>>]
    /\ callback = [present |-> FALSE, rejects |-> {}]
    /\ merge_alg = "none"
    /\ outcome = NoOutcome

FutureSpec == FutureSpecInit /\ [][FutureNext]_vars

\* a load call is examined on the importing thread, the option store as
\* FUTURE = Future() left it
LoadInit ==
    /\ dict = [t \in {MainThread} |-> FUTURE]
    /\ stack = [t \in Threads |-> <<>>]
    /\ last = Op(MainThread, "import", <<>>, FUTURE, FUTURE, TRUE, FALSE)
    /\ pc = "ready"
    /\ fn = "none"
    /\ uris \in UriArgs
    /\ constraints \in ConstraintArgs
    /\ callback \in CallbackArgs
    /\ merge_alg \in MergeAlgs
    /\ outcome = NoOutcome

Return(name, result) ==
    /\ pc = "ready"
    /\ pc' = "done"
    /\ fn' = name
    /\ outcome' = result
    /\ UNCHANGED <<uris, constraints, callback, merge_alg, future_vars>>

CallLoad == Return("load", load(uris, constraints, callback, merge_alg))
CallLoadCube == Return("load_cube", load_cube(uris, constraints, callback, merge_alg))
CallLoadCubes == Return("load_cubes", load_cubes(uris, constraints, callback, merge_alg))
CallLoadRaw == Return("load_raw", load_raw(uris, constraints, callback, merge_alg))

LoadNext == CallLoad \/ CallLoadCube \/ CallLoadCubes \/ CallLoadRaw

LoadSpec == LoadInit /\ [][LoadNext]_vars

(***************************************************************************)
(* Properties of the load pipeline                                         *)
(***************************************************************************)
\* the record stream of the call and its normalised constraints
Stream == generate_cubes(uris, callback)
Normalised == list_of_constraints(constraints)

\* the cubes of the stream that satisfy a constraint, in generation order
Matching(c) == SelectSeq(Stream.cubes, LAMBDA cube : Matches(c, cube))

\* what the merge makes of the matches of the i-th constraint
MergedOf(i) == merge(Matching(Normalised[i]), merge_alg)

BadIndexes == {i \in 1..Len(Normalised) : Len(MergedOf(i)) # 1}

BadIndexSeq ==
    SelectSeq([i \in 1..Len(Normalised) |-> i], LAMBDA i : i \in BadIndexes)

RECURSIVE SumLen(_)
SumLen(ss) == IF ss = <<>> THEN 0 ELSE Len(Head(ss)) + SumLen(Tail(ss))

Count(x, seq) == Cardinality({i \in 1..Len(seq) : seq[i] = x})

\* C5: load_cubes over a stream that was read to its end raises
\* ConstraintMismatchError exactly when some pair's merged list is not of
\* length 1; the message then names, in pair order, every such pair with its
\* constraint and count and no other pair; otherwise the result is the one
\* merged cube of each constraint, in constraint order.
C5_LoadCubesCardinality ==
    (pc = "done" /\ fn = "load_cubes") =>
        IF Stream.err # "" THEN outcome.status \in {"ValueError", "TranslationError"}
        ELSE /\ outcome.status = "ConstraintMismatchError" <=> BadIndexes # {}
             /\ BadIndexes # {} =>
                    /\ Len(outcome.bits) = Cardinality(BadIndexes)
                    /\ \A j \in 1..Len(outcome.bits) :
                          /\ outcome.bits[j].constraint = Normalised[BadIndexSeq[j]]
                          /\ outcome.bits[j].count = Len(MergedOf(BadIndexSeq[j]))
             /\ BadIndexes = {} =>
                    /\ outcome.status = "ok"
                    /\ Len(outcome.cubes) = Len(Normalised)
                    /\ \A i \in 1..Len(Normalised) : outcome.cubes[i] = MergedOf(i)[1]

\* load_cubes with two constraints: the first pair merges to one cube and is
\* not named, the second merges to three and is named with count 3
C5_Witness ==
    /\ pc = "done" /\ fn = "load_cubes" /\ Len(Normalised) = 2
    /\ Len(MergedOf(1)) = 1 /\ Len(MergedOf(2)) = 3
    /\ outcome.status = "ConstraintMismatchError"
    /\ outcome.bits = <<[constraint |-> Normalised[2], count |-> 3]>>

\* C6: load_cube with one constraint over a stream that was read to its end
\* returns the cube itself when the merged matches are exactly one cube, and
\* otherwise raises ConstraintMismatchError reporting their true number.
C6_LoadCubeCardinality ==
    (pc = "done" /\ fn = "load_cube" /\ Len(Normalised) = 1 /\ Stream.err = "") =>
        IF Len(MergedOf(1)) = 1
        THEN /\ outcome.status = "ok"
             /\ outcome.single
             /\ outcome.cubes = <<MergedOf(1)[1]>>
        ELSE /\ outcome.status = "ConstraintMismatchError"
             /\ outcome.found = Len(MergedOf(1))

\* load_cube returns the one cube into which the merge combined two matches
C6_Witness ==
    /\ pc = "done" /\ fn = "load_cube" /\ outcome.status = "ok" /\ outcome.single
    /\ Len(Matching(Normalised[1])) = 2
    /\ Cardinality(outcome.cubes[1].ids) = 2

\* C7: load_cube with no constraint or with several raises the arity
\* ValueError whatever the uris are, and nothing was decoded, no loader was
\* called, no cube was pulled and no callback ran.
C7_LoadCubeArity ==
    (pc = "done" /\ fn = "load_cube" /\ Len(Normalised) # 1) =>
        /\ outcome.status = "ValueError"
        /\ outcome.message = "only a single constraint is allowed"
        /\ outcome.io = NoIO

\* the arity error for two constraints and uris that load() reads with a
\* callback and returns cubes from
C7_Witness ==
    /\ pc = "done" /\ fn = "load_cube" /\ Len(Normalised) = 2
    /\ outcome.status = "ValueError"
    /\ callback.present
    /\ load(uris, constraints, callback, merge_alg).status = "ok"
    /\ load(uris, constraints, callback, merge_alg).io.pulled > 0

\* C8: load_raw over a stream that was read to its end returns, constraint
\* after constraint, the matches of each in generation order, unmerged; their
\* number is the sum of the per-constraint match counts.
C8_LoadRawUnmerged ==
    (pc = "done" /\ fn = "load_raw" /\ Stream.err = "") =>
        LET raw == [i \in 1..Len(Normalised) |-> Matching(Normalised[i])] IN
        /\ outcome.status = "ok"
        /\ outcome.cubes = Flatten(raw)
        /\ Len(outcome.cubes) = SumLen(raw)
        /\ \A i \in 1..Len(outcome.cubes) : Cardinality(outcome.cubes[i].ids) = 1

\* load_raw returns a cube twice, once per constraint it satisfies, where the
\* merge would have returned fewer cubes
C8_Witness ==
    /\ pc = "done" /\ fn = "load_raw" /\ outcome.status = "ok"
    /\ Len(Normalised) = 2
    /\ \E i, j \in 1..Len(outcome.cubes) : i # j /\ outcome.cubes[i] = outcome.cubes[j]
    /\ Len(load(uris, constraints, callback, merge_alg).cubes) < Len(outcome.cubes)

\* _generate_cubes ran in the call
Generated == pc = "done" /\ ~(fn = "load_cube" /\ Len(Normalised) # 1)

\* the (scheme, part) tuples of the groups given to the loaders
HandedTuples == Flatten([i \in 1..Len(outcome.io.handed) |-> outcome.io.handed[i].groups])

Decoded == outcome.io.decoded

\* each group is a maximal run of one scheme, every scheme is in one group
\* only, and the groups come in ascending order of scheme
GroupsWellFormed ==
    LET handed == outcome.io.handed IN
    /\ \A i \in 1..Len(handed) :
          /\ handed[i].groups # <<>>
          /\ \A k \in 1..Len(handed[i].groups) : handed[i].groups[k][1] = handed[i].scheme
          /\ Len(handed[i].groups)
                = Cardinality({k \in 1..Len(Decoded) : Decoded[k][1] = handed[i].scheme})
    /\ \A i, j \in 1..Len(handed) :
          i < j => StrRank[handed[i].scheme] < StrRank[handed[j].scheme]

\* a bare string is one location
BareStringIsOne == uris.type = "str" => Decoded = <<decode_uri(uris.val)>>

\* C9: the tuples of the groups given to the loaders are, as a multiset, the
\* decode results of the locations; every scheme is in one group only, and the
\* groups are processed in ascending order of scheme.
C9_ResolverComplete ==
    Generated =>
        /\ BareStringIsOne
        /\ GroupsWellFormed
        /\ \A k \in 1..Len(Decoded) :
              Count(Decoded[k], HandedTuples) = Count(Decoded[k], Decoded)

\* C9 as the code has it: the groups given to the loaders are always maximal
\* runs in ascending order with no tuple invented or repeated; they are all
\* of the decode results when the stream was read to its end, and otherwise
\* only the groups below the unrecognised scheme, or up to the group whose
\* loader failed.
C9_ResolverCompleteToTheEnd ==
    Generated =>
        /\ BareStringIsOne
        /\ GroupsWellFormed
        /\ \A k \in 1..Len(HandedTuples) :
              Count(HandedTuples[k], HandedTuples) = Count(HandedTuples[k], Decoded)
        /\ outcome.status \notin {"ValueError", "TranslationError"} =>
              \A k \in 1..Len(Decoded) :
                  Count(Decoded[k], HandedTuples) = Count(Decoded[k], Decoded)
        /\ \A k \in 1..Len(Decoded) :
              Count(Decoded[k], HandedTuples) = 0 =>
                  \A i \in 1..Len(outcome.io.handed) :
                      StrRank[outcome.io.handed[i].scheme] < StrRank[Decoded[k][1]]

\* two locations given in descending order, one of them twice over as 'a'
\* and 'file:a', reach the loaders in two groups, file first
C9_Witness ==
    /\ Generated /\ outcome.status = "ok"
    /\ Len(Decoded) = 2 /\ Decoded[1][1] = "http" /\ Decoded[2][1] = "file"
    /\ Len(outcome.io.handed) = 2
    /\ outcome.io.handed[1].scheme = "file"

(***************************************************************************)
(* Properties of Future                                                    *)
(***************************************************************************)
HasUnknownName(kwargs) == \E i \in 1..Len(kwargs) : kwargs[i].name \notin OptionNames

OverridesApplied(m, kwargs) ==
    \A i \in 1..Len(kwargs) :
        kwargs[i].name \in DOMAIN m /\ m[kwargs[i].name] = kwargs[i].value

\* C1: after a with-block whose body raised, the thread's option mapping
\* equals the snapshot taken when the block was entered.
C1_RestoredAfterRaise ==
    last.op = "raise" => dict[last.thread] = last.entry

\* C2: on entry the snapshot is the mapping held just before, and every
\* supplied override is observed inside the block; immediately after a normal
\* exit the mapping equals the mapping held at the matching (innermost open)
\* entry, whatever was assigned inside the block.
C2_ScopedRestore ==
    /\ (last.op = "enter" /\ last.ok) =>
            /\ Head(stack[last.thread]).current_state = last.pre
            /\ OverridesApplied(dict[last.thread], last.kwargs)
    /\ last.op = "exit" => dict[last.thread] = last.entry

\* a nested block has just ended normally, undoing a change made inside it,
\* and restored a mapping other than the one the enclosing block will restore
C2_Witness ==
    /\ last.op = "exit"
    /\ stack[last.thread] # <<>>
    /\ last.pre # last.entry
    /\ dict[last.thread] # Head(stack[last.thread]).current_state

\* C3: a step of one thread leaves every other thread's mapping as it was,
\* a thread's first access starts from the default mapping whatever the
\* other threads have set, and a read returns the reader's own value.
C3_ThreadIsolation ==
    [][/\ \A u \in DOMAIN dict :
            u # last'.thread => (u \in DOMAIN dict' /\ dict'[u] = dict[u])
       /\ last'.thread \notin DOMAIN dict => last'.pre = Future__init__(FALSE)
       /\ last'.op = "read" =>
            last'.read = ThreadDict(dict, last'.thread)["cell_time_objects"]]_vars

\* a thread reads the default although the other thread holds True, set
\* before the reader's first access or after it
C3_Witness ==
    /\ last.op = "read" /\ last.thread = "t2" /\ last.read = FALSE
    /\ dict["t1"]["cell_time_objects"] = TRUE
    /\ stack["t1"] # <<>>

\* C4: setting a name outside the initial name set fails with AttributeError,
\* by direct assignment and as a keyword of context(), and the names of every
\* thread's mapping are exactly the initial ones.
C4_UnknownOptionRejected ==
    /\ \A t \in DOMAIN dict : DOMAIN dict[t] = OptionNames
    /\ (last.op \in {"set", "enter"} /\ HasUnknownName(last.kwargs)) => ~last.ok
    /\ (last.op \in {"set", "enter"} /\ ~HasUnknownName(last.kwargs)) => last.ok

\* context() has just been refused for an unknown keyword
C4_Witness ==
    /\ last.op = "enter" /\ ~last.ok /\ HasUnknownName(last.kwargs)
    /\ DOMAIN dict[last.thread] = OptionNames

\* C10: context() applies all of its overrides or, when it fails for an
\* unknown keyword, none of them.
C10_AtomicOverrides ==
    last.op = "enter" =>
        IF last.ok THEN OverridesApplied(dict[last.thread], last.kwargs)
        ELSE dict[last.thread] = last.pre

====
